---- MODULE Spec2Model ----
(***************************************************************************)
(* Model of the httpgovernor package: the admission governor of            *)
(* governor.go (New, simpleGovernor.ServeHTTP, governor.ServeHTTP,         *)
(* governor.queue, governor.overload) together with the weighted           *)
(* semaphore of golang.org/x/sync/semaphore that it is built on.           *)
(*                                                                         *)
(* Every request is one goroutine running ServeHTTP.  A step of the model  *)
(* is one operation on shared state (a semaphore operation under its       *)
(* mutex, a metric update) together with the goroutine-local code around   *)
(* it.  Time is abstract: the expiry of MaxQueueDuration and the           *)
(* cancellation of the request's context are events of the environment;    *)
(* both close the Done channel of the context that queue() waits on, which *)
(* is all the code reads of it.  A handler returns or panics; in both      *)
(* cases the deferred calls of ServeHTTP run.                              *)
(* The three metric sinks of Params are configured (non-nil); with a nil   *)
(* sink the update of that sink is skipped and nothing else changes.       *)
(***************************************************************************)
EXTENDS Integers, Sequences, FiniteSets, TLC

\* Number of requests served by the handler; requests are numbered in the
\* order in which their ServeHTTP call starts.
NumReqs == 3
\* EstimateCost returns a cost in 0..MaxCost.
MaxCost == 2
\* Params.MaxConcurrency ranges over 0..MaxConcurrencyBound.
MaxConcurrencyBound == 2
\* Params.MaxBurst ranges over 0..MaxBurstBound.
MaxBurstBound == 4
\* The cost map of the estimator holds at most MaxPatterns keys.
MaxPatterns == 2
\* SetCost is called with a cost in 0..MaxPatternCost.
MaxPatternCost == 2

Reqs == 1..NumReqs
Costs == 0..MaxCost

VARIABLES
    g,          \* the handler returned by New: kind, Params and semaphores
    arrived,    \* number of requests whose ServeHTTP call has started
    pc,         \* pc[r]: where request r's goroutine is
    cost,       \* cost[r]: the local variable cost of ServeHTTP
    defers,     \* defers[r]: stack of deferred Release calls, top first
    ctxDone,    \* ctxDone[r]: the context of queue() is done
    grantedFirst, \* grantedFirst[r]: weight had been granted to r when its
                \* context became done
    ready,      \* ready[r]: the waiter's ready channel has been closed
    waitOrder,  \* the requests blocked in Acquire, in the order in which they
                \* began to wait
    outcome,    \* outcome[r]: state reached in the per-request state machine
    hndCalls,   \* hndCalls[r]: invocations of the wrapped handler for r
    ovlCalls,   \* ovlCalls[r]: invocations of the overload handler for r
    ovlIncs,    \* ovlIncs[r]: RequestOverloadCounter.Inc calls made for r
    held,       \* held[r][pool]: weight of pool that r has acquired and
                \* not released
    acq,        \* acq[r][pool]: successful acquires of pool made by r
    rel,        \* rel[r][pool]: Release calls on pool made by r
    overloadc,  \* value of RequestOverloadCounter
    qgauge,     \* value of QueueLengthGauge
    observed,   \* number of QueueDurationObserver.Observe calls
    pce,        \* the PatternCostEstimator: costs, prefixes and hasHost
    est,        \* the EstimateCost call that has just returned, if any
    lastSet,    \* lastSet[k]: cost given by the latest SetCost that stored
                \* under key k
    rewritten,  \* a SetCost has stored under a key that had another cost
    mu,         \* c.mu: held by a writer, number of readers holding it
    wr,         \* the SetCost call in progress, if any, step by step
    rd          \* the EstimateCost call in progress, if any, step by step

reqVars == <<pc, cost, defers, ctxDone, grantedFirst, ready, waitOrder,
            outcome>>
histVars == <<hndCalls, ovlCalls, ovlIncs, held, acq, rel>>
metricVars == <<overloadc, qgauge, observed>>
estVars == <<pce, est, lastSet, rewritten, mu, wr, rd>>
vars == <<g, arrived, reqVars, histVars, metricVars, estVars>>

Pools == {"sem", "concurrent", "burst"}

RECURSIVE SumCost(_)
SumCost(S) ==
    IF S = {} THEN 0
    ELSE LET r == CHOOSE x \in S : TRUE IN cost[r] + SumCost(S \ {r})

----------------------------------------------------------------------------
(* semaphore.Weighted: size, cur and the FIFO list of waiters.  A waiter is *)
(* [n |-> weight, id |-> request]; its ready channel is ready[id].          *)

NewWeighted(n) == [size |-> n, cur |-> 0, waiters |-> <<>>]

\* As CanAcquire, without the comparison with the free tokens.
CanAcquireAnyWeight(s, n) == Len(s.waiters) = 0

\* The condition under which TryAcquire, and the fast path of Acquire, add n
\* to cur: enough free tokens and no waiter.
CanAcquire(s, n) == s.size - s.cur >= n /\ Len(s.waiters) = 0

\* As notifyWaiters, granting no waiter.
notifyNobody(s) == s

\* notifyWaiters: grant the waiters at the front while they fit; stop at the
\* first that does not.
RECURSIVE notifyWaiters(_)
notifyWaiters(s) ==
    IF s.waiters = <<>> THEN s
    ELSE LET w == Head(s.waiters) IN
         IF s.size - s.cur < w.n THEN s
         ELSE notifyWaiters([s EXCEPT !.cur = @ + w.n, !.waiters = Tail(@)])

\* Release(n).
Release(s, n) == notifyWaiters([s EXCEPT !.cur = @ - n])

WaiterIds(s) == {s.waiters[i].id : i \in 1..Len(s.waiters)}

\* The requests whose ready channel is closed when semaphore s becomes t.
Notified(s, t) == WaiterIds(s) \ WaiterIds(t)

RemoveWaiter(s, r) ==
    [s EXCEPT !.waiters = SelectSeq(@, LAMBDA w : w.id # r)]

\* As PushBack, at the front of the list.
PushFront(ws, w) == <<w>> \o ws

\* s.waiters.PushBack(w)
PushBack(ws, w) == Append(ws, w)

\* Sequence o without request r.
Without(o, r) == SelectSeq(o, LAMBDA x : x # r)

----------------------------------------------------------------------------
(* New *)

New(p) ==
    IF p.MaxConcurrency = 0 THEN [kind |-> "none", p |-> p]
    ELSE IF p.MaxBurst <= p.MaxConcurrency
         THEN [kind |-> "simpleGovernor", p |-> p,
               sem |-> NewWeighted(p.MaxConcurrency)]
         ELSE [kind |-> "governor", p |-> p,
               concurrent |-> NewWeighted(p.MaxConcurrency),
               burst |-> NewWeighted(p.MaxBurst)]

NoPools == [q \in Pools |-> 0]

Init ==
    /\ \E mc \in 0..MaxConcurrencyBound, mb \in 0..MaxBurstBound :
          g = New([MaxConcurrency |-> mc, MaxBurst |-> mb])
    /\ arrived = 0
    /\ pc = [r \in Reqs |-> "idle"]
    /\ cost = [r \in Reqs |-> 0]
    /\ defers = [r \in Reqs |-> <<>>]
    /\ ctxDone = [r \in Reqs |-> FALSE]
    /\ grantedFirst = [r \in Reqs |-> FALSE]
    /\ ready = [r \in Reqs |-> FALSE]
    /\ waitOrder = <<>>
    /\ outcome = [r \in Reqs |-> "Start"]
    /\ hndCalls = [r \in Reqs |-> 0]
    /\ ovlCalls = [r \in Reqs |-> 0]
    /\ ovlIncs = [r \in Reqs |-> 0]
    /\ held = [r \in Reqs |-> NoPools]
    /\ acq = [r \in Reqs |-> NoPools]
    /\ rel = [r \in Reqs |-> NoPools]
    /\ overloadc = 0
    /\ qgauge = 0
    /\ observed = 0
    /\ pce = [costs |-> [k \in {} |-> 0], prefixes |-> <<>>, hasHost |-> FALSE]
    /\ est = <<>>
    /\ lastSet = [k \in {} |-> 0]
    /\ rewritten = FALSE
    /\ mu = [w |-> FALSE, readers |-> 0]
    /\ wr = <<>>
    /\ rd = <<>>

----------------------------------------------------------------------------
(* Goroutine-local fragments shared by the steps below. *)

\* Request r is the next one to arrive.
Arrives(r) == pc[r] = "idle" /\ arrived = r - 1

\* As Forward, falling through to the overload handler afterwards.
ForwardAndOverload(r, o) ==
    /\ pc' = [pc EXCEPT ![r] = "handler"]
    /\ hndCalls' = [hndCalls EXCEPT ![r] = @ + 1]
    /\ ovlCalls' = [ovlCalls EXCEPT ![r] = @ + 1]
    /\ outcome' = [outcome EXCEPT ![r] = o]
    /\ UNCHANGED <<ovlIncs, overloadc>>

\* As Forward, counting the request as overload too.
ForwardCounted(r, o) ==
    /\ pc' = [pc EXCEPT ![r] = "handler"]
    /\ hndCalls' = [hndCalls EXCEPT ![r] = @ + 1]
    /\ outcome' = [outcome EXCEPT ![r] = o]
    /\ overloadc' = overloadc + 1
    /\ ovlIncs' = [ovlIncs EXCEPT ![r] = @ + 1]
    /\ UNCHANGED ovlCalls

\* g.hnd.ServeHTTP(w, req) is entered for r, which reaches state o.
Forward(r, o) ==
    /\ pc' = [pc EXCEPT ![r] = "handler"]
    /\ hndCalls' = [hndCalls EXCEPT ![r] = @ + 1]
    /\ outcome' = [outcome EXCEPT ![r] = o]
    /\ UNCHANGED <<ovlCalls, ovlIncs, overloadc>>

\* As overload, without the increment of the overload counter.
overloadUncounted(r, o) ==
    /\ ovlCalls' = [ovlCalls EXCEPT ![r] = @ + 1]
    /\ pc' = [pc EXCEPT ![r] = "overload"]
    /\ outcome' = [outcome EXCEPT ![r] = o]
    /\ UNCHANGED <<hndCalls, ovlIncs, overloadc>>

\* governor.overload: count the request and enter the overload handler.
overload(r, o) ==
    /\ overloadc' = overloadc + 1
    /\ ovlIncs' = [ovlIncs EXCEPT ![r] = @ + 1]
    /\ ovlCalls' = [ovlCalls EXCEPT ![r] = @ + 1]
    /\ pc' = [pc EXCEPT ![r] = "overload"]
    /\ outcome' = [outcome EXCEPT ![r] = o]
    /\ UNCHANGED hndCalls

\* As Acquired, with the release put behind the ones deferred before it.
AcquiredReleasedInOrder(r, pool, n) ==
    /\ acq' = [acq EXCEPT ![r][pool] = @ + 1]
    /\ held' = [held EXCEPT ![r][pool] = @ + n]
    /\ defers' = [defers EXCEPT ![r] = Append(@, pool)]

\* A successful acquire of n from pool by r, followed by
\* defer pool.Release(n).
Acquired(r, pool, n) ==
    /\ acq' = [acq EXCEPT ![r][pool] = @ + 1]
    /\ held' = [held EXCEPT ![r][pool] = @ + n]
    /\ defers' = [defers EXCEPT ![r] = <<pool>> \o @]

\* The ready channels closed when the semaphore pool of g changes to t.
Wake(pool, t) ==
    ready' = [q \in Reqs |-> ready[q] \/ q \in Notified(g[pool], t)]

IsFreeNever(c) == FALSE

\* if cost == 0: the request bypasses the semaphores.
IsFree(c) == c = 0

\* The results of the three non-blocking acquires of the governors.
SemAdmitsAlways(c) == TRUE

\* g.sem.TryAcquire(cost) of simpleGovernor.ServeHTTP succeeds.
SemAdmits(c) == CanAcquire(g.sem, c)

BurstAdmitsAlways(c) == TRUE

\* As BurstAdmits, for a burst pool with one more token than MaxBurst.
BurstAdmitsOneMore(c) == g.burst.size + 1 - g.burst.cur >= c

\* g.burst.TryAcquire(cost) of governor.ServeHTTP succeeds.
BurstAdmits(c) == CanAcquire(g.burst, c)

ConcurrentAdmitsAlways(c) == TRUE

\* As ConcurrentAdmits, looking at the free tokens only.
ConcurrentAdmitsBarging(c) == g.concurrent.size - g.concurrent.cur >= c

\* g.concurrent.TryAcquire(cost) of governor.ServeHTTP succeeds.
ConcurrentAdmits(c) == CanAcquire(g.concurrent, c)

----------------------------------------------------------------------------
(* New with MaxConcurrency = 0 returns hnd itself. *)

Ungoverned(r) ==
    /\ g.kind = "none"
    /\ Arrives(r)
    /\ arrived' = r
    /\ Forward(r, "Ungoverned")
    /\ UNCHANGED <<g, cost, defers, ctxDone, grantedFirst, ready,
                   waitOrder, held, acq,
                   rel, qgauge, observed>>
    /\ UNCHANGED estVars

----------------------------------------------------------------------------
(* simpleGovernor.ServeHTTP up to the call of a handler; c is the result   *)
(* of EstimateCost (1 without an estimator).                               *)

SimpleServeHTTP(r, c) ==
    /\ g.kind = "simpleGovernor"
    /\ Arrives(r)
    /\ arrived' = r
    /\ cost' = [cost EXCEPT ![r] = c]
    /\ IF IsFree(c)
       THEN /\ Forward(r, "FreeBypass")
            /\ UNCHANGED <<g, defers, acq, held>>
       ELSE IF SemAdmits(c)
       THEN /\ g' = [g EXCEPT !.sem.cur = @ + c]
            /\ Acquired(r, "sem", c)
            /\ Forward(r, "Admitted")
       ELSE /\ overloadc' = overloadc + 1
            /\ ovlIncs' = [ovlIncs EXCEPT ![r] = @ + 1]
            /\ ovlCalls' = [ovlCalls EXCEPT ![r] = @ + 1]
            /\ pc' = [pc EXCEPT ![r] = "overload"]
            /\ outcome' = [outcome EXCEPT ![r] = "Overload"]
            /\ UNCHANGED <<g, defers, acq, held, hndCalls>>
    /\ UNCHANGED <<ctxDone, grantedFirst, ready, waitOrder, rel, qgauge, observed>>
    /\ UNCHANGED estVars

----------------------------------------------------------------------------
(* governor.ServeHTTP *)

\* Cost estimate, free bypass and the non-blocking acquire of the burst pool.
GovernorServeHTTP(r, c) ==
    /\ g.kind = "governor"
    /\ Arrives(r)
    /\ arrived' = r
    /\ cost' = [cost EXCEPT ![r] = c]
    /\ IF IsFree(c)
       THEN /\ Forward(r, "FreeBypass")
            /\ UNCHANGED <<g, defers, acq, held>>
       ELSE IF ~BurstAdmits(c)
       THEN /\ overload(r, "BurstDenied")
            /\ UNCHANGED <<g, defers, acq, held>>
       ELSE /\ g' = [g EXCEPT !.burst.cur = @ + c]
            /\ Acquired(r, "burst", c)
            /\ pc' = [pc EXCEPT ![r] = "burstHeld"]
            /\ outcome' = [outcome EXCEPT ![r] = "BurstGranted"]
            /\ UNCHANGED <<hndCalls, ovlCalls, ovlIncs, overloadc>>
    /\ UNCHANGED <<ctxDone, grantedFirst, ready, waitOrder, rel, qgauge, observed>>
    /\ UNCHANGED estVars

\* g.concurrent.TryAcquire(cost); on failure queue() is entered and the
\* queue-length gauge incremented.
TryConcurrent(r) ==
    /\ g.kind = "governor"
    /\ pc[r] = "burstHeld"
    /\ IF ConcurrentAdmits(cost[r])
       THEN /\ g' = [g EXCEPT !.concurrent.cur = @ + cost[r]]
            /\ Acquired(r, "concurrent", cost[r])
            /\ Forward(r, "ConcurrentImmediate")
            /\ UNCHANGED qgauge
       ELSE /\ qgauge' = qgauge + 1
            /\ pc' = [pc EXCEPT ![r] = "acquire"]
            /\ outcome' = [outcome EXCEPT ![r] = "Queued"]
            /\ UNCHANGED <<g, defers, acq, held, hndCalls, ovlCalls, ovlIncs,
                           overloadc>>
    /\ UNCHANGED <<arrived, cost, ctxDone, grantedFirst, ready, waitOrder,
                   rel, observed>>
    /\ UNCHANGED estVars

\* As QueueSuccess, with the gauge decremented when ServeHTTP returns
\* instead of when queue() returns.
QueueSuccessKeepsGauge(r) ==
    /\ observed' = observed + 1
    /\ qgauge' = qgauge
    /\ Acquired(r, "concurrent", cost[r])
    /\ Forward(r, "ConcurrentGranted")
    /\ ctxDone' = [ctxDone EXCEPT ![r] = FALSE]
    /\ grantedFirst' = [grantedFirst EXCEPT ![r] = FALSE]

\* queue() returns true: the wait is observed, the deferred gauge decrement
\* runs, and ServeHTTP defers the release and calls the wrapped handler.
QueueSuccess(r) ==
    /\ observed' = observed + 1
    /\ qgauge' = qgauge - 1
    /\ Acquired(r, "concurrent", cost[r])
    /\ Forward(r, "ConcurrentGranted")
    /\ ctxDone' = [ctxDone EXCEPT ![r] = FALSE]
    /\ grantedFirst' = [grantedFirst EXCEPT ![r] = FALSE]

\* As QueueFail, observing the wait of a failed Acquire too.
QueueFailObserved(r) ==
    /\ qgauge' = qgauge - 1
    /\ observed' = observed + 1
    /\ overload(r, "TimedOut")
    /\ grantedFirst' = [grantedFirst EXCEPT ![r] = FALSE]
    /\ UNCHANGED <<acq, held, defers, ctxDone>>

\* As QueueFail, with the result of queue() ignored by ServeHTTP.
QueueFailForwards(r) ==
    /\ qgauge' = qgauge - 1
    /\ Forward(r, "TimedOut")
    /\ grantedFirst' = [grantedFirst EXCEPT ![r] = FALSE]
    /\ UNCHANGED <<observed, acq, held, defers, ctxDone>>

\* queue() returns false: the deferred gauge decrement runs and ServeHTTP
\* calls overload.
QueueFail(r) ==
    /\ qgauge' = qgauge - 1
    /\ overload(r, "TimedOut")
    /\ grantedFirst' = [grantedFirst EXCEPT ![r] = FALSE]
    /\ UNCHANGED <<observed, acq, held, defers, ctxDone>>

----------------------------------------------------------------------------
(* governor.queue: g.concurrent.Acquire(ctx, cost) under the context with  *)
(* the MaxQueueDuration timeout.  The source tree does not pin the version *)
(* of golang.org/x/sync; where its releases differ (a context that is      *)
(* already done on entry, a grant racing with the context, the             *)
(* notification of the waiters behind a cancelled one) each behaviour is a *)
(* possible step.                                                          *)

\* As Timeout, for a wait without a deadline.
TimeoutNever(r) == FALSE

\* The maximum queue duration elapses while r is in queue().
Timeout(r) ==
    /\ pc[r] \in {"acquire", "waiting", "doomed"}
    /\ ~ctxDone[r]
    /\ ctxDone' = [ctxDone EXCEPT ![r] = TRUE]
    /\ grantedFirst' = [grantedFirst EXCEPT ![r] = ready[r]]
    /\ UNCHANGED <<g, arrived, pc, cost, defers, ready, waitOrder, outcome,
                   histVars, metricVars>>
    /\ UNCHANGED estVars

\* The request's own context is cancelled before or while r is in queue().
Cancel(r) ==
    /\ pc[r] \in {"acquire", "waiting", "doomed"}
    /\ ~ctxDone[r]
    /\ ctxDone' = [ctxDone EXCEPT ![r] = TRUE]
    /\ grantedFirst' = [grantedFirst EXCEPT ![r] = ready[r]]
    /\ UNCHANGED <<g, arrived, pc, cost, defers, ready, waitOrder, outcome,
                   histVars, metricVars>>
    /\ UNCHANGED estVars

\* Acquire takes the mutex: it returns at once (granted, or the context is
\* already done), blocks until the context is done when the weight exceeds
\* the size, or joins the waiters.
QueueAcquire(r) ==
    /\ g.kind = "governor"
    /\ pc[r] = "acquire"
    /\ \/ /\ ctxDone[r]
          /\ QueueFail(r)
          /\ UNCHANGED <<g, waitOrder>>
       \/ /\ CanAcquire(g.concurrent, cost[r])
          /\ g' = [g EXCEPT !.concurrent.cur = @ + cost[r]]
          /\ QueueSuccess(r)
          /\ UNCHANGED waitOrder
       \/ /\ ~CanAcquire(g.concurrent, cost[r])
          /\ cost[r] > g.concurrent.size
          /\ pc' = [pc EXCEPT ![r] = "doomed"]
          /\ waitOrder' = Append(waitOrder, r)
          /\ UNCHANGED <<g, defers, outcome, histVars, metricVars, ctxDone,
                         grantedFirst>>
       \/ /\ ~CanAcquire(g.concurrent, cost[r])
          /\ cost[r] <= g.concurrent.size
          /\ g' = [g EXCEPT !.concurrent.waiters =
                                PushBack(@, [n |-> cost[r], id |-> r])]
          /\ pc' = [pc EXCEPT ![r] = "waiting"]
          /\ waitOrder' = Append(waitOrder, r)
          /\ UNCHANGED <<defers, outcome, histVars, metricVars, ctxDone,
                         grantedFirst>>
    /\ UNCHANGED <<arrived, cost, ready, rel>>
    /\ UNCHANGED estVars

\* The waiter's ready channel is closed and its goroutine resumes.  With the
\* context done as well, Acquire either reports the grant or gives the
\* weight back and reports the context's error.
QueueGranted(r) ==
    /\ g.kind = "governor"
    /\ pc[r] = "waiting"
    /\ ready[r]
    /\ \/ /\ QueueSuccess(r)
          /\ ready' = [ready EXCEPT ![r] = FALSE]
          /\ UNCHANGED g
       \/ /\ ctxDone[r]
          /\ LET t == Release(g.concurrent, cost[r]) IN
                /\ g' = [g EXCEPT !.concurrent = t]
                /\ ready' = [q \in Reqs |->
                               q # r /\ (ready[q] \/ q \in Notified(g.concurrent, t))]
          /\ QueueFail(r)
    /\ waitOrder' = Without(waitOrder, r)
    /\ UNCHANGED <<arrived, cost, rel>>
    /\ UNCHANGED estVars

\* The context is done before the weight was granted: the waiter leaves the
\* list (waking the waiters behind it when it was at the front and tokens
\* are left, in the releases that do so) and Acquire returns the error.
QueueExpired(r) ==
    /\ g.kind = "governor"
    /\ ctxDone[r]
    /\ \/ /\ pc[r] = "doomed"
          /\ UNCHANGED <<g, ready>>
       \/ /\ pc[r] = "waiting"
          /\ ~ready[r]
          /\ g' = [g EXCEPT !.concurrent = RemoveWaiter(@, r)]
          /\ UNCHANGED ready
       \/ /\ pc[r] = "waiting"
          /\ ~ready[r]
          /\ Head(g.concurrent.waiters).id = r
          /\ g.concurrent.size > g.concurrent.cur
          /\ LET s == RemoveWaiter(g.concurrent, r)
                 t == notifyWaiters(s)
             IN /\ g' = [g EXCEPT !.concurrent = t]
                /\ ready' = [q \in Reqs |-> ready[q] \/ q \in Notified(s, t)]
    /\ QueueFail(r)
    /\ waitOrder' = Without(waitOrder, r)
    /\ UNCHANGED <<arrived, cost, rel>>
    /\ UNCHANGED estVars

----------------------------------------------------------------------------
(* Return from a handler and the deferred calls of ServeHTTP. *)

\* ServeHTTP is over and its frame, with the local cost and the context of
\* queue(), is gone.
Returned(r) ==
    /\ pc' = [pc EXCEPT ![r] = "done"]
    /\ cost' = [cost EXCEPT ![r] = 0]
    /\ ctxDone' = [ctxDone EXCEPT ![r] = FALSE]
    /\ grantedFirst' = [grantedFirst EXCEPT ![r] = FALSE]

\* The top deferred Release runs; ServeHTTP is over when none is left.
Unwind(r) ==
    IF defers[r] = <<>>
    THEN /\ Returned(r)
         /\ UNCHANGED <<g, ready, held, rel, defers>>
    ELSE LET pool == Head(defers[r])
             t == Release(g[pool], cost[r])
         IN /\ g' = [g EXCEPT ![pool] = t]
            /\ Wake(pool, t)
            /\ rel' = [rel EXCEPT ![r][pool] = @ + 1]
            /\ held' = [held EXCEPT ![r][pool] = @ - cost[r]]
            /\ defers' = [defers EXCEPT ![r] = Tail(@)]
            /\ IF Tail(defers[r]) = <<>>
               THEN Returned(r)
               ELSE /\ pc' = [pc EXCEPT ![r] = "unwind"]
                    /\ UNCHANGED <<cost, ctxDone, grantedFirst>>

\* The wrapped handler returns.
HandlerReturn(r) ==
    /\ pc[r] = "handler"
    /\ Unwind(r)
    /\ UNCHANGED <<arrived, waitOrder, outcome, hndCalls, ovlCalls, ovlIncs,
                   acq, metricVars>>
    /\ UNCHANGED estVars

\* The overload handler returns.
OverloadReturn(r) ==
    /\ pc[r] = "overload"
    /\ Unwind(r)
    /\ UNCHANGED <<arrived, waitOrder, outcome, hndCalls, ovlCalls, ovlIncs,
                   acq, metricVars>>
    /\ UNCHANGED estVars

\* As HandlerPanic with the releases called after the handler instead of
\* deferred: the panic skips them.
HandlerPanicSkipsReleases(r) ==
    /\ pc[r] \in {"handler", "overload"}
    /\ Returned(r)
    /\ UNCHANGED <<g, arrived, ready, waitOrder, defers, outcome, histVars,
                   metricVars>>
    /\ UNCHANGED estVars

\* The handler run for r panics: the deferred calls run as on a return.
HandlerPanic(r) ==
    /\ pc[r] \in {"handler", "overload"}
    /\ Unwind(r)
    /\ UNCHANGED <<arrived, waitOrder, outcome, hndCalls, ovlCalls, ovlIncs,
                   acq, metricVars>>
    /\ UNCHANGED estVars

\* The next deferred Release runs.
RunDeferred(r) ==
    /\ pc[r] = "unwind"
    /\ Unwind(r)
    /\ UNCHANGED <<arrived, waitOrder, outcome, hndCalls, ovlCalls, ovlIncs,
                   acq, metricVars>>
    /\ UNCHANGED estVars

----------------------------------------------------------------------------

Next ==
    \/ \E r \in Reqs : Ungoverned(r)
    \/ \E r \in Reqs, c \in Costs : SimpleServeHTTP(r, c)
    \/ \E r \in Reqs, c \in Costs : GovernorServeHTTP(r, c)
    \/ \E r \in Reqs : TryConcurrent(r)
    \/ \E r \in Reqs : QueueAcquire(r)
    \/ \E r \in Reqs : QueueGranted(r)
    \/ \E r \in Reqs : QueueExpired(r)
    \/ \E r \in Reqs : Timeout(r)
    \/ \E r \in Reqs : Cancel(r)
    \/ \E r \in Reqs : HandlerReturn(r)
    \/ \E r \in Reqs : OverloadReturn(r)
    \/ \E r \in Reqs : HandlerPanic(r)
    \/ \E r \in Reqs : RunDeferred(r)

Spec == Init /\ [][Next]_vars

\* The cost of every request when Params.CostEstimator is nil.
DefaultCost == 1

\* The steps of a handler built without a cost estimator.
UnitNext ==
    \/ \E r \in Reqs : Ungoverned(r)
    \/ \E r \in Reqs : SimpleServeHTTP(r, DefaultCost)
    \/ \E r \in Reqs : GovernorServeHTTP(r, DefaultCost)
    \/ \E r \in Reqs : TryConcurrent(r)
    \/ \E r \in Reqs : QueueAcquire(r)
    \/ \E r \in Reqs : QueueGranted(r)
    \/ \E r \in Reqs : QueueExpired(r)
    \/ \E r \in Reqs : Timeout(r)
    \/ \E r \in Reqs : Cancel(r)
    \/ \E r \in Reqs : HandlerReturn(r)
    \/ \E r \in Reqs : OverloadReturn(r)
    \/ \E r \in Reqs : HandlerPanic(r)
    \/ \E r \in Reqs : RunDeferred(r)

UnitSpec == Init /\ [][UnitNext]_vars

\* Scheduling: a goroutine that can take its next step takes it (the Go
\* scheduler runs every runnable goroutine), the timer of
\* context.WithTimeout fires, and the handlers return.  Nothing is assumed
\* about arrivals, cancellation by the client or panics.
Fairness ==
    \A r \in Reqs :
       /\ WF_vars(TryConcurrent(r))
       /\ WF_vars(QueueAcquire(r))
       /\ WF_vars(QueueGranted(r))
       /\ WF_vars(QueueExpired(r))
       /\ WF_vars(Timeout(r))
       /\ WF_vars(HandlerReturn(r))
       /\ WF_vars(OverloadReturn(r))
       /\ WF_vars(RunDeferred(r))

FairSpec == Spec /\ Fairness

----------------------------------------------------------------------------
(* Properties *)

InHandler == {r \in Reqs : pc[r] = "handler"}
InQueue == {r \in Reqs : pc[r] \in {"acquire", "waiting", "doomed"}}
InProgress == {r \in Reqs : pc[r] \notin {"idle", "done"}}
TwoTier == g.kind = "governor"
SingleTier == g.kind = "simpleGovernor"

\* C1: in the two-tier form the costs of the requests being run by the
\* wrapped handler never add up to more than MaxConcurrency.
C1_InFlightWithinConcurrency ==
    TwoTier => SumCost(InHandler) <= g.p.MaxConcurrency

\* Two requests fill the concurrent pool while a third waits in the queue.
C1_Witness ==
    /\ TwoTier
    /\ Cardinality({r \in InHandler : cost[r] > 0}) = 2
    /\ SumCost(InHandler) = g.p.MaxConcurrency
    /\ \E r \in Reqs : pc[r] = "waiting"

\* C2: in the two-tier form the costs of the requests in the wrapped handler
\* plus those of the requests in the queue never add up to more than MaxBurst.
C2_InFlightAndQueuedWithinBurst ==
    TwoTier => SumCost(InHandler \cup InQueue) <= g.p.MaxBurst

\* The burst pool is full with one request running and two queued.
C2_Witness ==
    /\ TwoTier
    /\ SumCost(InHandler \cup InQueue) = g.p.MaxBurst
    /\ Cardinality({r \in InHandler : cost[r] > 0}) = 1
    /\ Cardinality(InQueue) = 2

Admitted == {"FreeBypass", "Admitted", "ConcurrentImmediate",
             "ConcurrentGranted"}
Rejected == {"Overload", "BurstDenied", "TimedOut"}

RECURSIVE SumHeld(_, _)
SumHeld(S, pool) ==
    IF S = {} THEN 0
    ELSE LET r == CHOOSE x \in S : TRUE
         IN held[r][pool] + SumHeld(S \ {r}, pool)

\* Weight granted to waiters whose goroutine has not resumed yet.
GrantedAsleep == SumCost({r \in Reqs : pc[r] = "waiting" /\ ready[r]})

PoolsOf(kind) ==
    IF kind = "governor" THEN {"concurrent", "burst"}
    ELSE IF kind = "simpleGovernor" THEN {"sem"} ELSE {}

\* C3: acquires and releases balance per request in both limiting forms:
\* a request acquires each pool at most once, releases it at most once and
\* only what it holds, has released everything it acquired when ServeHTTP
\* is over (also when the handler panicked), and the outstanding weight of a
\* pool is the weight the requests hold, hence 0 when none is in progress.
C3_AcquireReleaseBalanced ==
    /\ \A r \in Reqs, pool \in Pools :
          /\ rel[r][pool] <= acq[r][pool]
          /\ acq[r][pool] <= 1
          /\ held[r][pool] = (acq[r][pool] - rel[r][pool]) * cost[r]
          /\ pc[r] = "done" => held[r][pool] = 0 /\ rel[r][pool] = acq[r][pool]
    /\ \A pool \in PoolsOf(g.kind) :
          g[pool].cur = SumHeld(Reqs, pool)
                          + (IF pool = "concurrent" THEN GrantedAsleep ELSE 0)
    /\ InProgress = {} => \A pool \in PoolsOf(g.kind) : g[pool].cur = 0

\* A request admitted from the queue has released its concurrent weight and
\* not yet its burst weight, and a request that timed out has released its
\* burst weight.
C3_Witness ==
    /\ \E r \in Reqs :
          /\ pc[r] = "unwind"
          /\ outcome[r] = "ConcurrentGranted"
          /\ rel[r]["concurrent"] = 1 /\ held[r]["concurrent"] = 0
          /\ held[r]["burst"] = cost[r]
    /\ \E r \in Reqs :
          /\ pc[r] = "done" /\ outcome[r] = "TimedOut"
          /\ rel[r]["burst"] = 1

\* C4: a request handled by a limiting governor gets the wrapped handler
\* once or the overload handler once, never both, on every path of the
\* per-request state machine.
C4_ExactlyOneHandler ==
    g.kind # "none" =>
       \A r \in Reqs :
          /\ hndCalls[r] + ovlCalls[r] <= 1
          /\ outcome[r] \in Admitted
                => hndCalls[r] = 1 /\ ovlCalls[r] = 0
          /\ outcome[r] \in Rejected
                => hndCalls[r] = 0 /\ ovlCalls[r] = 1
          /\ pc[r] \in {"handler", "overload", "unwind", "done"}
                <=> outcome[r] \in Admitted \cup Rejected
          /\ pc[r] = "handler" => outcome[r] \in Admitted
          /\ pc[r] = "overload" => outcome[r] \in Rejected

\* All requests are over: one was admitted at once, one from the queue and
\* one timed out in the queue.
C4_Witness ==
    /\ \A r \in Reqs : pc[r] = "done"
    /\ \E r \in Reqs : outcome[r] = "ConcurrentImmediate"
    /\ \E r \in Reqs : outcome[r] = "ConcurrentGranted"
    /\ \E r \in Reqs : outcome[r] = "TimedOut"

QueueStates == {"acquire", "waiting", "doomed"}

\* C5: in the two-tier form a request leaves the queue rejected only with
\* its context done (by the timeout or by cancellation, which the model does
\* not tell apart), and a waiting request whose context is done before any
\* weight was granted to it can only be rejected.  A request rejected in
\* this way is never forwarded, has acquired and holds no concurrent weight,
\* gets the overload counter incremented once and the overload handler
\* invoked once, leaves the queue-length gauge, and has released its burst
\* weight once when ServeHTTP is over.
C5_QueueTimeoutRejects ==
    [][TwoTier => \A r \in Reqs :
         /\ (pc[r] \in {"waiting", "doomed"} /\ ctxDone[r] /\ ~ready[r]
                 /\ pc'[r] # pc[r])
               => outcome'[r] = "TimedOut"
         /\ outcome'[r] = "TimedOut" =>
               /\ outcome[r] # "TimedOut" =>
                     /\ pc[r] \in QueueStates /\ ctxDone[r]
                     /\ pc'[r] = "overload"
                     /\ overloadc' = overloadc + 1
                     /\ qgauge' = qgauge - 1
                     /\ observed' = observed
                     /\ held'[r]["burst"] = cost'[r]
               /\ hndCalls'[r] = 0
               /\ acq'[r]["concurrent"] = 0 /\ held'[r]["concurrent"] = 0
               /\ r \notin WaiterIds(g'.concurrent)
               /\ ovlIncs'[r] = 1 /\ ovlCalls'[r] = 1
               /\ pc'[r] \in {"overload", "done"}
               /\ pc'[r] = "done" =>
                     rel'[r]["burst"] = 1 /\ held'[r]["burst"] = 0]_vars

\* One request that timed out in the queue is over and its burst weight is
\* back in the pool; another is in the overload handler, still holding its
\* burst weight, while a third runs.
C5_Witness ==
    /\ TwoTier
    /\ \E r, q \in Reqs :
          /\ outcome[r] = "TimedOut" /\ pc[r] = "done"
          /\ rel[r]["burst"] = 1
          /\ outcome[q] = "TimedOut" /\ pc[q] = "overload"
          /\ held[q]["burst"] > 0
          /\ g.burst.cur = held[q]["burst"] + SumCost(InHandler)
    /\ InHandler # {}
    /\ overloadc = 2

\* Request r's ServeHTTP call starts in this step.
Starts(r) == pc[r] = "idle" /\ pc'[r] # "idle"

\* C6: in both limiting forms a request whose estimated cost is 0 is
\* forwarded to the wrapped handler whatever the state of the pools and of
\* the queue; neither its arrival nor its completion changes a pool, the
\* overload counter, the queue-length gauge or the observations, and it
\* never acquires or releases weight.
C6_ZeroCostAlwaysForwarded ==
    [][g.kind # "none" => \A r \in Reqs :
         /\ (Starts(r) /\ cost'[r] = 0) =>
               /\ pc'[r] = "handler" /\ outcome'[r] = "FreeBypass"
               /\ hndCalls'[r] = 1 /\ ovlCalls'[r] = 0
               /\ g' = g /\ metricVars' = metricVars
               /\ acq'[r] = NoPools /\ held'[r] = NoPools
               /\ defers'[r] = <<>>
         /\ (outcome[r] = "FreeBypass" /\ pc'[r] # pc[r]) =>
               /\ pc'[r] = "done"
               /\ hndCalls'[r] = 1 /\ ovlCalls'[r] = 0
               /\ g' = g /\ metricVars' = metricVars
               /\ acq'[r] = NoPools /\ rel'[r] = NoPools]_vars

\* The last request to arrive has cost 0 and is in the wrapped handler while
\* both pools are full and another request waits in the queue.
C6_Witness ==
    /\ TwoTier
    /\ outcome[NumReqs] = "FreeBypass" /\ pc[NumReqs] = "handler"
    /\ g.concurrent.cur = g.p.MaxConcurrency
    /\ g.burst.cur = g.p.MaxBurst
    /\ \E q \in Reqs : pc[q] = "waiting" /\ ~ready[q]
    /\ \A q \in Reqs \ {NumReqs} : pc[q] \in {"handler", "waiting"}

\* C7: in the single-tier form a request of cost c > 0 is forwarded if and
\* only if the cost in flight plus c is at most MaxConcurrency when it
\* attempts its acquire, and is otherwise rejected with the overload handler
\* in the same step; no request ever waits or queues, and a request that
\* completes gives its cost back to the pool.
C7_SingleTierAdmitsIffFits ==
    [][SingleTier => \A r \in Reqs :
         /\ (Starts(r) /\ cost'[r] > 0) =>
               IF SumCost(InHandler) + cost'[r] <= g.p.MaxConcurrency
               THEN /\ pc'[r] = "handler" /\ outcome'[r] = "Admitted"
                    /\ hndCalls'[r] = 1 /\ ovlCalls'[r] = 0
                    /\ g'.sem.cur = g.sem.cur + cost'[r]
                    /\ overloadc' = overloadc
               ELSE /\ pc'[r] = "overload" /\ outcome'[r] = "Overload"
                    /\ hndCalls'[r] = 0 /\ ovlCalls'[r] = 1
                    /\ g' = g
                    /\ overloadc' = overloadc + 1
         /\ pc'[r] \in {"idle", "handler", "overload", "done"}
         /\ g'.sem.waiters = <<>> /\ qgauge' = 0 /\ observed' = 0
         /\ (pc[r] = "handler" /\ pc'[r] # "handler") =>
               /\ pc'[r] = "done"
               /\ g'.sem.cur = g.sem.cur - cost[r]
               /\ g'.sem.cur = SumCost(InHandler \ {r})]_vars

\* The first request was admitted and is over, the second was rejected while
\* the first was in flight, and the third holds the whole pool.
C7_Witness ==
    /\ SingleTier
    /\ outcome[1] = "Admitted" /\ pc[1] = "done"
    /\ outcome[2] = "Overload" /\ pc[2] = "overload"
    /\ cost[2] <= g.p.MaxConcurrency
    /\ outcome[3] = "Admitted" /\ pc[3] = "handler"
    /\ cost[3] = g.p.MaxConcurrency

\* C8: in the two-tier form a request of cost c > 0 that does not fit in the
\* burst pool is rejected in the step of its arrival: it is never in the
\* queue, holds and acquires no weight, leaves both pools, the queue-length
\* gauge and the observations unchanged, and gets the overload counter
\* incremented and the overload handler invoked once; its return changes
\* no pool either.
C8_BurstDeniedFrame ==
    [][TwoTier => \A r \in Reqs :
         /\ (Starts(r) /\ cost'[r] > 0
                 /\ g.p.MaxBurst - g.burst.cur < cost'[r]) =>
               /\ pc'[r] = "overload" /\ outcome'[r] = "BurstDenied"
               /\ g' = g /\ qgauge' = qgauge /\ observed' = observed
               /\ overloadc' = overloadc + 1 /\ ovlIncs'[r] = 1
               /\ ovlCalls'[r] = 1 /\ hndCalls'[r] = 0
               /\ acq'[r] = NoPools /\ held'[r] = NoPools
               /\ defers'[r] = <<>>
         /\ (outcome[r] = "BurstDenied" /\ pc'[r] # pc[r]) =>
               /\ pc'[r] = "done"
               /\ g' = g /\ metricVars' = metricVars
               /\ ovlCalls'[r] = 1 /\ hndCalls'[r] = 0
               /\ acq'[r] = NoPools /\ rel'[r] = NoPools]_vars

\* A request was denied by the burst pool, which a running request and a
\* queued one fill; the concurrent pool and the gauge show only those two.
C8_Witness ==
    /\ TwoTier
    /\ outcome[NumReqs] = "BurstDenied" /\ pc[NumReqs] = "overload"
    /\ overloadc = 1 /\ qgauge = 1
    /\ \E q \in Reqs : pc[q] = "waiting" /\ ~ready[q]
    /\ \E q \in Reqs : pc[q] = "handler" /\ g.concurrent.cur = cost[q]
    /\ g.burst.cur + cost[NumReqs] > g.p.MaxBurst

\* Request r began to wait before request q, and both are blocked in Acquire.
Before(r, q) ==
    \E i, j \in 1..Len(waitOrder) :
       i < j /\ waitOrder[i] = r /\ waitOrder[j] = q

\* Request r is blocked in Acquire and no weight has been granted to it.
Ungranted(r) == pc[r] = "doomed" \/ (pc[r] = "waiting" /\ ~ready[r])

\* Concurrent weight is granted to the blocked request q in this step.
GrantedNow(q) == pc[q] = "waiting" /\ ~ready[q] /\ ready'[q]

\* C9 as stated: no blocked request is granted concurrent weight while a
\* request that began to wait earlier is still waiting.
C9_FifoAmongAllBlocked ==
    [][TwoTier => \A q, r \in Reqs :
         (GrantedNow(q) /\ Before(r, q) /\ Ungranted(r)) => ~Ungranted(r)']_vars

\* C9, amended: no blocked request is granted concurrent weight while a
\* request of cost at most MaxConcurrency that began to wait earlier is
\* still waiting.  (A request of cost above MaxConcurrency blocks in Acquire
\* until its context is done without joining the list of waiters.)
C9_FifoAmongGrantable ==
    [][TwoTier => \A q, r \in Reqs :
         (GrantedNow(q) /\ Before(r, q) /\ Ungranted(r)
             /\ cost[r] <= g.p.MaxConcurrency)
           => ~Ungranted(r)']_vars

\* Two requests wait; the free weight is enough for the second but not for
\* the first, and the second has not been granted.
C9_Witness ==
    /\ TwoTier
    /\ Len(g.concurrent.waiters) = 2
    /\ LET free == g.p.MaxConcurrency - g.concurrent.cur
           w == g.concurrent.waiters
       IN /\ w[1].n > free /\ w[2].n <= free
          /\ Before(w[1].id, w[2].id)
          /\ Ungranted(w[1].id) /\ Ungranted(w[2].id)

\* The non-blocking acquire of the concurrent pool by r succeeds in this step.
TryAcquireSucceeds(r) == pc[r] = "burstHeld" /\ pc'[r] = "handler"

\* C10 as stated: while a request is blocked waiting on the concurrent pool,
\* the non-blocking acquire of a newcomer does not succeed.
C10_NoBargingPastAnyBlocked ==
    [][TwoTier => \A q, r \in Reqs :
         (pc[q] = "burstHeld" /\ pc'[q] # "burstHeld" /\ Ungranted(r))
           => ~TryAcquireSucceeds(q) /\ pc'[q] = "acquire"]_vars

\* C10, amended: while a request of cost at most MaxConcurrency is blocked
\* waiting on the concurrent pool, the non-blocking acquire of a newcomer
\* does not succeed and the newcomer enters the queue.
C10_NoBargingPastGrantable ==
    [][TwoTier => \A q, r \in Reqs :
         (pc[q] = "burstHeld" /\ pc'[q] # "burstHeld" /\ Ungranted(r)
             /\ cost[r] <= g.p.MaxConcurrency)
           => /\ ~TryAcquireSucceeds(q) /\ pc'[q] = "acquire"
              /\ g'.concurrent = g.concurrent
              /\ qgauge' = qgauge + 1]_vars

\* The last request to arrive is in queue() although the free weight of the
\* concurrent pool covers its cost: an earlier request is waiting.
C10_Witness ==
    /\ TwoTier
    /\ pc[NumReqs] = "acquire"
    /\ cost[NumReqs] <= g.p.MaxConcurrency - g.concurrent.cur
    /\ g.concurrent.cur > 0
    /\ \E r \in Reqs : Ungranted(r) /\ cost[r] <= g.p.MaxConcurrency

\* A Release on the concurrent pool runs in this step: a deferred release,
\* or the give-back by a waiter granted after its context was done.
ReleasesConcurrent ==
    \E q \in Reqs :
       \/ rel'[q]["concurrent"] # rel[q]["concurrent"]
       \/ pc[q] = "waiting" /\ ready[q] /\ outcome'[q] = "TimedOut"

\* The waiter at the front of the concurrent pool's list.
FrontWaiter(s) == Head(s.waiters)

\* Request r, granted its weight, resumes from Acquire and is forwarded.
ForwardedFromQueue(r) ==
    /\ pc'[r] = "handler" /\ outcome'[r] = "ConcurrentGranted"
    /\ hndCalls'[r] = 1 /\ ovlCalls'[r] = 0
    /\ held'[r]["concurrent"] = cost[r]
    /\ overloadc' = overloadc

\* A release leaves no waiter at the front of the list that fits, and every
\* waiter it took off the list has its ready channel closed.
GrantsOnRelease ==
    ReleasesConcurrent =>
       /\ g'.concurrent.waiters # <<>> =>
             FrontWaiter(g'.concurrent).n
                > g'.concurrent.size - g'.concurrent.cur
       /\ \A r \in WaiterIds(g.concurrent) \ WaiterIds(g'.concurrent) :
             ready'[r]

C12_EveryRequestCompletes ==
    \A r \in Reqs :
       /\ (pc[r] # "idle") ~> (pc[r] = "done")
       /\ (pc[r] \in QueueStates)
             ~> (outcome[r] \in {"ConcurrentGranted", "TimedOut"})

\* Every request is over; two of them were rejected from the queue after
\* their deadline and the gauge is back at 0.
C12_Witness ==
    /\ TwoTier
    /\ \A r \in Reqs : pc[r] = "done"
    /\ Cardinality({r \in Reqs : outcome[r] = "TimedOut"}) = 2
    /\ qgauge = 0 /\ g.burst.cur = 0 /\ g.concurrent.cur = 0

\* The requests answered by the overload handler.
Overloaded == {r \in Reqs : ovlCalls[r] > 0}

\* C13: the overload counter is incremented once for every rejected request
\* (failed acquire of the single pool, burst denial, timeout or cancellation
\* in the queue), never for an admitted one, and its value is the number of
\* requests answered by the overload handler, also when all are over.
C13_OverloadCounterCountsRejections ==
    /\ \A r \in Reqs :
          /\ ovlIncs[r] = ovlCalls[r]
          /\ outcome[r] \in Rejected => ovlIncs[r] = 1
          /\ outcome[r] \notin Rejected => ovlIncs[r] = 0
    /\ overloadc = Cardinality(Overloaded)
    /\ overloadc = Cardinality({r \in Reqs : outcome[r] \in Rejected})

\* All requests are over: one was admitted, one denied by the burst pool and
\* one timed out in the queue; the counter reads 2.
C13_Witness ==
    /\ \A r \in Reqs : pc[r] = "done"
    /\ \E r \in Reqs : outcome[r] = "BurstDenied"
    /\ \E r \in Reqs : outcome[r] = "TimedOut"
    /\ \E r \in Reqs : outcome[r] \in Admitted /\ hndCalls[r] = 1
    /\ overloadc = 2

\* C14: the queue-length gauge is the number of requests inside queue(): it
\* goes up by one when a request enters queue(), which a request does at
\* most once, and down by one when the request leaves it, by grant or by
\* timeout or cancellation; it is never negative, 0 when no request is
\* queued, and already decremented for a request when the wrapped handler
\* starts for it.
C14_GaugeCountsQueuedRequests ==
    [][/\ qgauge = Cardinality(InQueue) /\ qgauge >= 0
       /\ qgauge' = Cardinality(InQueue)' /\ qgauge' >= 0
       /\ InQueue' = {} => qgauge' = 0
       /\ \A r \in Reqs :
             /\ (r \notin InQueue /\ r \in InQueue') =>
                   /\ qgauge' = qgauge + 1
                   /\ pc[r] = "burstHeld" /\ outcome[r] = "BurstGranted"
             /\ (r \in InQueue /\ r \notin InQueue') =>
                   /\ qgauge' = qgauge - 1
                   /\ pc'[r] \in {"handler", "overload"}
                   /\ outcome'[r] \in {"ConcurrentGranted", "TimedOut"}
             /\ (pc[r] # "handler" /\ pc'[r] = "handler") =>
                   qgauge' = Cardinality(InQueue \ {r})]_vars

\* A request admitted from the queue is in the wrapped handler and another
\* still waits: the gauge reads 1.
C14_Witness ==
    /\ TwoTier
    /\ \E r, q \in Reqs :
          /\ pc[r] = "handler" /\ outcome[r] = "ConcurrentGranted"
          /\ pc[q] = "waiting" /\ ~ready[q]
    /\ qgauge = 1

\* The requests admitted by the Acquire of queue().
AdmittedFromQueue == {r \in Reqs : outcome[r] = "ConcurrentGranted"}

\* C15: the queue-duration observer gets one observation for each request
\* admitted by the Acquire of queue(), made in the step that forwards it
\* and not after, and none for any other request: admitted at once, of
\* cost 0, denied by the burst pool, timed out or cancelled in the queue.
C15_OneObservationPerQueuedAdmission ==
    [][/\ observed = Cardinality(AdmittedFromQueue)
       /\ observed' = Cardinality(AdmittedFromQueue)'
       /\ outcome' = outcome => observed' = observed
       /\ \A r \in Reqs :
             outcome'[r] # outcome[r] =>
                IF outcome'[r] = "ConcurrentGranted"
                THEN /\ observed' = observed + 1
                     /\ pc[r] \in QueueStates /\ pc'[r] = "handler"
                     /\ hndCalls[r] = 0 /\ hndCalls'[r] = 1
                ELSE observed' = observed]_vars

\* All requests are over: one was admitted at once and two from the queue,
\* with two observations.
C15_Witness ==
    /\ \A r \in Reqs : pc[r] = "done"
    /\ Cardinality(AdmittedFromQueue) = 2
    /\ \E r \in Reqs : outcome[r] = "ConcurrentImmediate"
    /\ observed = 2

\* The requests inside queue() to which no concurrent weight has been
\* granted.
NotGranted == {r \in InQueue : ~(pc[r] = "waiting" /\ ready[r])}

\* C16 as stated, the queue being the requests inside queue(), which the
\* queue-length gauge counts: with every request costing 1 there are never
\* more than MaxBurst - MaxConcurrency of them.
C16_QueueWithinBurstMinusConcurrency ==
    TwoTier =>
       Cardinality(InQueue) <= g.p.MaxBurst - g.p.MaxConcurrency

\* C16, amended: with every request costing 1, the requests inside queue()
\* that have not been granted concurrent weight are never more than
\* MaxBurst - MaxConcurrency, and those inside queue() never more than
\* MaxBurst.
C16_UngrantedWithinBurstMinusConcurrency ==
    TwoTier =>
       /\ Cardinality(NotGranted) <= g.p.MaxBurst - g.p.MaxConcurrency
       /\ Cardinality(InQueue) <= g.p.MaxBurst

\* The queue is full: a request runs and MaxBurst - MaxConcurrency = 2
\* requests of cost 1 wait in the list.
C16_Witness ==
    /\ TwoTier
    /\ Cardinality(NotGranted) = g.p.MaxBurst - g.p.MaxConcurrency
    /\ Len(g.concurrent.waiters) = 2
    /\ Cardinality(InHandler) = g.p.MaxConcurrency
    /\ \A r \in Reqs : cost[r] = DefaultCost

----------------------------------------------------------------------------
(* PatternCostEstimator (patternestimator.go).  A string is a sequence of   *)
(* one-character strings.                                                   *)

\* strings.HasPrefix
HasPrefix(s, prefix) ==
    Len(prefix) <= Len(s) /\ SubSeq(s, 1, Len(prefix)) = prefix

\* strings.HasSuffix(s, "/")
HasSlashSuffix(s) == Len(s) > 0 /\ s[Len(s)] = "/"

\* strings.Index(s, ch) and strings.LastIndexByte(s, ch) as positions from 1;
\* 0 stands for the result -1.
Index(s, ch) ==
    IF \E i \in 1..Len(s) : s[i] = ch
    THEN CHOOSE i \in 1..Len(s) :
            s[i] = ch /\ \A j \in 1..(i - 1) : s[j] # ch
    ELSE 0

LastIndexByte(s, ch) ==
    IF \E i \in 1..Len(s) : s[i] = ch
    THEN CHOOSE i \in 1..Len(s) :
            s[i] = ch /\ \A j \in (i + 1)..Len(s) : s[j] # ch
    ELSE 0

\* As stripPort, cutting at the last colon whatever the brackets.
stripPortAtLastColon(hostport) ==
    LET n == LastIndexByte(hostport, ":")
    IN IF n = 0 THEN hostport ELSE SubSeq(hostport, 1, n - 1)

\* stripPort: hostport[:n] for the last colon at n, unless there is none or
\* the host starts with '[' and the byte before the colon is not ']'.
stripPort(hostport) ==
    LET n == LastIndexByte(hostport, ":")
    IN IF n = 0 THEN hostport
       ELSE IF hostport[1] = "[" /\ hostport[n - 1] # "]" THEN hostport
       ELSE SubSeq(hostport, 1, n - 1)

\* The elements of a path between slashes, empty elements dropped.
RECURSIVE Elements(_, _)
Elements(s, cur) ==
    IF s = <<>> THEN (IF cur = <<>> THEN <<>> ELSE <<cur>>)
    ELSE IF Head(s) = "/"
         THEN (IF cur = <<>> THEN <<>> ELSE <<cur>>) \o Elements(Tail(s), <<>>)
         ELSE Elements(Tail(s), Append(cur, Head(s)))

\* path.Clean on the elements: "." is dropped, ".." removes the element
\* before it, is dropped at the root and kept at the start of a path that
\* is not rooted.
RECURSIVE CleanElements(_, _, _)
CleanElements(els, out, rooted) ==
    IF els = <<>> THEN out
    ELSE LET e == Head(els) IN
         IF e = <<".">> THEN CleanElements(Tail(els), out, rooted)
         ELSE IF e = <<".", ".">>
         THEN IF out # <<>> /\ out[Len(out)] # <<".", ".">>
              THEN CleanElements(Tail(els), SubSeq(out, 1, Len(out) - 1),
                                 rooted)
              ELSE IF rooted THEN CleanElements(Tail(els), out, rooted)
              ELSE CleanElements(Tail(els), Append(out, e), rooted)
         ELSE CleanElements(Tail(els), Append(out, e), rooted)

RECURSIVE Join(_)
Join(els) ==
    IF els = <<>> THEN <<>>
    ELSE IF Len(els) = 1 THEN Head(els)
    ELSE Head(els) \o <<"/">> \o Join(Tail(els))

\* As Clean, returning the path as it is.
CleanIdentity(path) == path

\* stdpath.Clean
Clean(path) ==
    IF path = <<>> THEN <<".">>
    ELSE LET rooted == path[1] = "/"
             out == CleanElements(Elements(path, <<>>), <<>>, rooted)
         IN IF rooted THEN <<"/">> \o Join(out)
            ELSE IF out = <<>> THEN <<".">> ELSE Join(out)

\* The cost of a request that no pattern matches.
NoMatchCost == 1

\* m[k] = v, as an assignment to a Go map.
Store(m, k, v) ==
    [x \in DOMAIN m \cup {k} |-> IF x = k THEN v ELSE m[x]]

\* As addPrefix, putting a new prefix at the front of the list.
addPrefixAtFront(prefixes, prefix) ==
    IF \E i \in 1..Len(prefixes) : prefixes[i] = prefix THEN prefixes
    ELSE <<prefix>> \o prefixes

\* As addPrefix, appending a new prefix at the end of the list.
RECURSIVE addPrefixAtEnd(_, _)
addPrefixAtEnd(prefixes, prefix) ==
    IF prefixes = <<>> THEN <<prefix>>
    ELSE IF Head(prefixes) = prefix THEN prefixes
    ELSE <<Head(prefixes)>> \o addPrefixAtEnd(Tail(prefixes), prefix)

\* addPrefix: nothing if the prefix is in the list before any shorter one;
\* else insert it before the first shorter one, or append it.
RECURSIVE addPrefix(_, _)
addPrefix(prefixes, prefix) ==
    IF prefixes = <<>> THEN <<prefix>>
    ELSE IF Head(prefixes) = prefix THEN prefixes
    ELSE IF Len(prefix) > Len(Head(prefixes)) THEN <<prefix>> \o prefixes
    ELSE <<Head(prefixes)>> \o addPrefix(Tail(prefixes), prefix)

\* The local variables of SetCost after its switch and normalisation:
\* host, path, prefix and cleanPath.
SplitPattern(pattern) ==
    LET n == Index(pattern, "/")
        host == IF n = 0 THEN pattern
                ELSE IF n = 1 THEN <<>>
                ELSE SubSeq(pattern, 1, n - 1)
        raw == IF n = 0 THEN <<"/">>
               ELSE SubSeq(pattern, n, Len(pattern))
        prefix == HasSlashSuffix(raw)
        cleaned == Clean(raw)
        path == IF prefix /\ ~HasSlashSuffix(cleaned)
                THEN cleaned \o <<"/">> ELSE cleaned
    IN [host |-> host, path |-> path, prefix |-> prefix,
        cleanPath |-> host \o path]

\* As StoreCost, keeping the cost of a key that is already in the map.
StoreCostOnce(costs, key, k) ==
    IF key \in DOMAIN costs THEN costs ELSE Store(costs, key, k)

\* c.costs[cleanPath] = cost
StoreCost(costs, key, k) == Store(costs, key, k)

\* SetCost(pattern, k) on estimator t.
SetCost(t, pattern, k) ==
    LET sp == SplitPattern(pattern)
    IN [costs |-> StoreCost(t.costs, sp.cleanPath, k),
        prefixes |-> IF sp.prefix THEN addPrefix(t.prefixes, sp.cleanPath)
                     ELSE t.prefixes,
        hasHost |-> t.hasHost \/ sp.host # <<>>]

\* The first prefix of the list that path starts with; 0 if there is none.
FirstPrefix(prefixes, path) ==
    IF \E i \in 1..Len(prefixes) : HasPrefix(path, prefixes[i])
    THEN CHOOSE i \in 1..Len(prefixes) :
            /\ HasPrefix(path, prefixes[i])
            /\ \A j \in 1..(i - 1) : ~HasPrefix(path, prefixes[j])
    ELSE 0

\* m[k] as an expression: the zero value when k is not in the map.
Lookup(m, k) == IF k \in DOMAIN m THEN m[k] ELSE 0

\* As match, looking at the prefixes only.
matchPrefixesOnly(t, path) ==
    LET i == FirstPrefix(t.prefixes, path)
    IN IF i # 0 THEN [cost |-> Lookup(t.costs, t.prefixes[i]), ok |-> TRUE]
       ELSE [cost |-> NoMatchCost, ok |-> FALSE]

\* match: the cost stored under path; else the cost of the first prefix in
\* the list that path starts with; else 1 and false.
match(t, path) ==
    IF path \in DOMAIN t.costs THEN [cost |-> t.costs[path], ok |-> TRUE]
    ELSE LET i == FirstPrefix(t.prefixes, path)
         IN IF i # 0
            THEN [cost |-> Lookup(t.costs, t.prefixes[i]), ok |-> TRUE]
            ELSE [cost |-> NoMatchCost, ok |-> FALSE]

\* As EstimateCost, trying the path alone before the host and path.
EstimateCostPathFirst(t, host, urlpath) ==
    LET path == Clean(urlpath)
        pm == match(t, path)
    IN IF pm.ok THEN pm.cost ELSE match(t, stripPort(host) \o path).cost

\* EstimateCost for a request with Host header host and URL path urlpath.
EstimateCost(t, host, urlpath) ==
    LET path == Clean(urlpath)
        hm == match(t, stripPort(host) \o path)
    IN IF t.hasHost /\ hm.ok THEN hm.cost ELSE match(t, path).cost

----------------------------------------------------------------------------
(* Calls of the estimator.  SetCost runs under the write lock and          *)
(* EstimateCost under the read lock of c.mu: est holds the call of         *)
(* EstimateCost that has computed its result and not yet released the read *)
(* lock, so no SetCost runs while it is there.                             *)

\* Patterns given to SetCost: "/a/", "/a/b", "/a/b/", "/a//", "h/a/",
\* "h/a/b", "h", "h:8/a/", "[::1]/a/".
Patterns ==
    { <<"/", "a", "/">>,
      <<"/", "a", "/", "b">>,
      <<"/", "a", "/", "b", "/">>,
      <<"/", "a", "/", "/">>,
      <<"h", "/", "a", "/">>,
      <<"h", "/", "a", "/", "b">>,
      <<"h">>,
      <<"h", ":", "8", "/", "a", "/">>,
      <<"[", ":", ":", "1", "]", "/", "a", "/">> }

\* Host headers of requests: "h", "h:8", "[::1]", "[::1]:8".
Hosts ==
    { <<"h">>,
      <<"h", ":", "8">>,
      <<"[", ":", ":", "1", "]">>,
      <<"[", ":", ":", "1", "]", ":", "8">> }

\* URL paths of requests: "/a", "/a/", "/a/b", "/a/b/c", "/b", "/a//b",
\* "/a/../b".
Paths ==
    { <<"/", "a">>,
      <<"/", "a", "/">>,
      <<"/", "a", "/", "b">>,
      <<"/", "a", "/", "b", "/", "c">>,
      <<"/", "b">>,
      <<"/", "a", "/", "/", "b">>,
      <<"/", "a", "/", ".", ".", "/", "b">> }

PatternCosts == 0..MaxPatternCost

\* c.SetCost(pattern, k)
SetCostCall(pattern, k) ==
    LET key == SplitPattern(pattern).cleanPath IN
    /\ est = <<>>
    /\ \/ Cardinality(DOMAIN pce.costs) < MaxPatterns
       \/ key \in DOMAIN pce.costs
    /\ pce' = SetCost(pce, pattern, k)
    /\ lastSet' = Store(lastSet, key, k)
    /\ rewritten' = (rewritten \/ (key \in DOMAIN lastSet /\ lastSet[key] # k))
    /\ UNCHANGED <<est, mu, wr, rd, g, arrived, reqVars, histVars, metricVars>>

\* c.EstimateCost(req) up to its return statement.
EstimateCostCall(host, path) ==
    /\ est = <<>>
    /\ est' = <<[host |-> host, path |-> path,
                 cost |-> EstimateCost(pce, host, path)]>>
    /\ UNCHANGED <<pce, lastSet, rewritten, mu, wr, rd, g, arrived, reqVars,
                   histVars, metricVars>>

\* EstimateCost returns: the deferred RUnlock.
EstimateCostReturn ==
    /\ est # <<>>
    /\ est' = <<>>
    /\ UNCHANGED <<pce, lastSet, rewritten, mu, wr, rd, g, arrived, reqVars,
                   histVars, metricVars>>

EstNext ==
    \/ \E pattern \in Patterns, k \in PatternCosts : SetCostCall(pattern, k)
    \/ \E host \in Hosts, path \in Paths : EstimateCostCall(host, path)
    \/ EstimateCostReturn

\* The estimator on its own, next to a handler that serves no request.
EstInit == Init /\ g = New([MaxConcurrency |-> 0, MaxBurst |-> 0])

EstSpec == EstInit /\ [][EstNext]_vars

----------------------------------------------------------------------------
(* Properties of the estimator. *)

\* The keys that EstimateCost passes to match: the cleaned path of a
\* request, alone or after its host without the port.
CandidateKeys ==
    {Clean(path) : path \in Paths}
        \cup {stripPort(host) \o Clean(path) : host \in Hosts, path \in Paths}

\* The registered subtree patterns that key starts with.
SubtreesOf(t, key) ==
    {q \in DOMAIN t.costs : HasSlashSuffix(q) /\ HasPrefix(key, q)}

\* The longest of a non-empty set of strings.
Longest(S) == CHOOSE q \in S : \A x \in S : Len(x) <= Len(q)

\* The result that the matching rule prescribes for key.
Matching(t, key) ==
    IF key \in DOMAIN t.costs THEN [cost |-> t.costs[key], ok |-> TRUE]
    ELSE IF SubtreesOf(t, key) # {}
         THEN [cost |-> t.costs[Longest(SubtreesOf(t, key))], ok |-> TRUE]
         ELSE [cost |-> NoMatchCost, ok |-> FALSE]

\* C17: whatever table the SetCost calls have built, match returns for every
\* candidate key the cost of the entry equal to the key if there is one,
\* else the cost of the longest registered subtree pattern that the key
\* starts with, else the default 1 as "no match"; a registered cost of 0 is
\* returned as 0 and as a match.
C17_MatchExactThenLongestPrefix ==
    \A key \in CandidateKeys : match(pce, key) = Matching(pce, key)

\* EstimateCost has answered for "/a/b/c" from a table that holds the
\* subtrees "/a/" and "/a/b/" with different costs and no host: the answer
\* is the cost of "/a/b/".
C17_Witness ==
    /\ est # <<>>
    /\ est[1].path = <<"/", "a", "/", "b", "/", "c">>
    /\ DOMAIN pce.costs = {<<"/", "a", "/">>, <<"/", "a", "/", "b", "/">>}
    /\ pce.prefixes[1] = <<"/", "a", "/", "b", "/">>
    /\ pce.costs[<<"/", "a", "/">>] # pce.costs[<<"/", "a", "/", "b", "/">>]
    /\ est[1].cost = pce.costs[<<"/", "a", "/", "b", "/">>]

\* The host component of a key of the cost map: what precedes its first
\* slash.
HostOf(key) == SubSeq(key, 1, Index(key, "/") - 1)

\* The table t restricted to the patterns registered for host h; the
\* host-less patterns are those of the empty host.
PatternsFor(t, h) ==
    [costs |-> [key \in {q \in DOMAIN t.costs : HostOf(q) = h}
                    |-> t.costs[key]]]

\* The cost that host precedence prescribes for a request: the match among
\* the patterns of the request's host if there is one, else the result of
\* matching the path among the host-less patterns.
HostFirst(t, host, urlpath) ==
    LET h == stripPort(host)
        path == Clean(urlpath)
        hm == Matching(PatternsFor(t, h), h \o path)
    IN IF hm.ok THEN hm.cost ELSE Matching(PatternsFor(t, <<>>), path).cost

\* C18: EstimateCost returns the cost of the pattern registered for the
\* request's host that matches host and path (exactly or by prefix) if
\* there is one, even when a host-less pattern matches the path exactly or
\* with a longer prefix; only if no pattern of that host matches does it
\* return the result of matching the path among the host-less patterns;
\* patterns registered for another host play no part.
C18_HostPatternsFirst ==
    est # <<>> => est[1].cost = HostFirst(pce, est[1].host, est[1].path)

\* EstimateCost has answered for host "h", path "/a/b" from a table that
\* holds "h/a/" and the exact host-less "/a/b" with different costs: the
\* answer is the cost of "h/a/".
C18_Witness ==
    /\ est # <<>>
    /\ est[1].host = <<"h">>
    /\ est[1].path = <<"/", "a", "/", "b">>
    /\ DOMAIN pce.costs = {<<"h", "/", "a", "/">>, <<"/", "a", "/", "b">>}
    /\ pce.costs[<<"h", "/", "a", "/">>] # pce.costs[<<"/", "a", "/", "b">>]
    /\ est[1].cost = pce.costs[<<"h", "/", "a", "/">>]

\* The host of a host[:port]: a bracketed literal up to its closing
\* bracket, any other host up to its first colon.
BareHost(hostport) ==
    IF hostport # <<>> /\ hostport[1] = "["
    THEN LET n == Index(hostport, "]")
         IN IF n = 0 THEN hostport ELSE SubSeq(hostport, 1, n)
    ELSE LET n == Index(hostport, ":")
         IN IF n = 0 THEN hostport ELSE SubSeq(hostport, 1, n - 1)

\* The path component of a key of the cost map: from its first slash on.
PathOf(key) == SubSeq(key, Index(key, "/"), Len(key))

\* The pattern stored under key matches the cleaned path, exactly or as a
\* subtree.
PathMatches(key, path) ==
    \/ PathOf(key) = path
    \/ HasSlashSuffix(key) /\ HasPrefix(path, PathOf(key))

\* C19 as stated: when a registered pattern whose host component, with or
\* without a port, is the host of the request matches the request's path,
\* EstimateCost returns the cost of such a pattern.
C19_PortIgnoredOnBothSides ==
    est # <<>> =>
        LET h == BareHost(est[1].host)
            path == Clean(est[1].path)
            M == {key \in DOMAIN pce.costs :
                    /\ HostOf(key) # <<>>
                    /\ BareHost(HostOf(key)) = h
                    /\ PathMatches(key, path)}
        IN M # {} => \E key \in M : est[1].cost = pce.costs[key]

\* C19, corrected: the port is ignored on the side of the request only.  A
\* request addressed to host H with any or no port is answered with the
\* match among the patterns whose host component is H as registered,
\* without a port, H being a name or a bracketed literal whose inner colons
\* are not port separators; without such a match it is answered from the
\* host-less patterns, so a pattern registered with a port matches no
\* such request.
C19_PortIgnoredOnRequestOnly ==
    est # <<>> =>
        LET h == BareHost(est[1].host)
            path == Clean(est[1].path)
            hm == Matching(PatternsFor(pce, h), h \o path)
        IN est[1].cost = IF hm.ok THEN hm.cost
                         ELSE Matching(PatternsFor(pce, <<>>), path).cost

\* EstimateCost has answered for host "[::1]:8", path "/a/b" from a table
\* that holds "[::1]/a/" alone, with a cost other than the default: the
\* answer is that cost.
C19_Witness ==
    /\ est # <<>>
    /\ est[1].host = <<"[", ":", ":", "1", "]", ":", "8">>
    /\ est[1].path = <<"/", "a", "/", "b">>
    /\ DOMAIN pce.costs = {<<"[", ":", ":", "1", "]", "/", "a", "/">>}
    /\ est[1].cost # NoMatchCost
    /\ est[1].cost = pce.costs[<<"[", ":", ":", "1", "]", "/", "a", "/">>]

\* No string occurs twice in the list.
NoDuplicates(list) ==
    \A i, j \in 1..Len(list) : list[i] = list[j] => i = j

\* C20: after any sequence of SetCost calls the cost stored under a
\* normalized pattern is the cost given by the latest SetCost whose pattern
\* normalizes to it, no pattern occurs twice in the prefix list, and
\* EstimateCost answers with the latest cost of the pattern that matches.
C20_LastWriteWins ==
    /\ DOMAIN pce.costs = DOMAIN lastSet
    /\ \A key \in DOMAIN lastSet : pce.costs[key] = lastSet[key]
    /\ NoDuplicates(pce.prefixes)
    /\ est # <<>> =>
          est[1].cost = HostFirst([costs |-> lastSet], est[1].host,
                                  est[1].path)

\* The subtree "/a/" has been registered again with another cost and is
\* the only pattern; it is once in the prefix list and EstimateCost has
\* answered for "/a/b" with its latest cost.
C20_Witness ==
    /\ rewritten
    /\ DOMAIN lastSet = {<<"/", "a", "/">>}
    /\ pce.prefixes = << <<"/", "a", "/">> >>
    /\ est # <<>>
    /\ est[1].path = <<"/", "a", "/", "b">>
    /\ est[1].cost = lastSet[<<"/", "a", "/">>]
    /\ est[1].cost # NoMatchCost

\* The list is in order of non-increasing length.
LongestFirst(list) ==
    \A i, j \in 1..Len(list) : i < j => Len(list[i]) >= Len(list[j])

\* C22: after any sequence of SetCost calls the prefix list is sorted by
\* non-increasing length, holds no entry twice, and each of its entries is a
\* key of the cost map.
C22_PrefixListSortedAndStored ==
    /\ LongestFirst(pce.prefixes)
    /\ \A i, j \in 1..Len(pce.prefixes) :
           i # j => pce.prefixes[i] # pce.prefixes[j]
    /\ \A i \in 1..Len(pce.prefixes) : pce.prefixes[i] \in DOMAIN pce.costs

\* Two subtrees of different lengths have been registered, one of them
\* more than once with different costs: the longer one is first.
C22_Witness ==
    /\ rewritten
    /\ pce.prefixes = << <<"h", "/", "a", "/">>, <<"/", "a", "/">> >>
    /\ DOMAIN pce.costs = {<<"h", "/", "a", "/">>, <<"/", "a", "/">>}

----------------------------------------------------------------------------

\* C23: in the single-tier and the two-tier form the wrapped handler is
\* never called for a request whose cost exceeds MaxConcurrency.  In the
\* two-tier form such a request, once it holds its cost of the burst pool,
\* enters the queue; there it holds that weight, leaves the queue only with
\* its context done (deadline or cancellation), and leaves it for the
\* overload handler, the burst weight still held.
C23_OversizedNeverForwarded ==
    [][\A r \in Reqs :
         LET mc == g.p.MaxConcurrency IN
         /\ (g.kind # "none" /\ hndCalls'[r] # hndCalls[r]) => cost'[r] <= mc
         /\ (TwoTier /\ cost[r] > mc /\ pc[r] = "burstHeld"
                /\ pc'[r] # "burstHeld") => pc'[r] = "acquire"
         /\ (TwoTier /\ cost[r] > mc /\ pc[r] \in QueueStates) =>
                /\ held[r]["burst"] = cost[r]
                /\ pc'[r] \notin QueueStates =>
                      /\ ctxDone[r]
                      /\ pc'[r] = "overload"
                      /\ ovlCalls'[r] = ovlCalls[r] + 1
                      /\ held'[r]["burst"] = cost[r]]_vars

\* A request whose cost exceeds MaxConcurrency has been through the queue
\* of a two-tier governor and is in the overload handler, its burst weight
\* held and the wrapped handler not called.
C23_Witness ==
    \E r \in Reqs :
        /\ TwoTier
        /\ cost[r] > g.p.MaxConcurrency
        /\ pc[r] = "overload"
        /\ outcome[r] = "TimedOut"
        /\ held[r]["burst"] = cost[r]
        /\ hndCalls[r] = 0

\* Request r makes a Release call on pool in this step.
Releases(r, pool) == rel'[r][pool] # rel[r][pool]

\* C24: in the two-tier form a request releases its concurrent weight when
\* the wrapped handler is over and while it holds its burst weight, and
\* releases its burst weight only with no concurrent weight left and after
\* the handler it ran, wrapped or overload, is over; a request rejected
\* after its wait in the queue holds its burst weight for as long as the
\* overload handler runs.
C24_ConcurrentReleasedBeforeBurst ==
    [][\A r \in Reqs : TwoTier =>
          /\ Releases(r, "concurrent") =>
                /\ pc[r] = "handler"
                /\ rel[r]["burst"] = 0
                /\ held[r]["burst"] = cost[r]
                /\ held'[r]["burst"] = cost[r]
          /\ Releases(r, "burst") =>
                /\ pc[r] \in {"unwind", "overload"}
                /\ held[r]["concurrent"] = 0
                /\ rel[r]["concurrent"] = acq[r]["concurrent"]
          /\ (pc[r] = "overload" /\ outcome[r] = "TimedOut") =>
                held[r]["burst"] = cost[r] /\ rel[r]["burst"] = 0
          /\ (pc'[r] = "overload" /\ outcome'[r] = "TimedOut") =>
                held'[r]["burst"] = cost'[r] /\ rel'[r]["burst"] = 0]_vars

\* An admitted request of a two-tier governor has released its concurrent
\* weight and still holds its burst weight.
C24_Witness ==
    \E r \in Reqs :
        /\ TwoTier
        /\ pc[r] = "unwind"
        /\ hndCalls[r] = 1
        /\ rel[r]["concurrent"] = 1
        /\ held[r]["concurrent"] = 0
        /\ rel[r]["burst"] = 0
        /\ held[r]["burst"] = cost[r]
        /\ cost[r] > 0

----------------------------------------------------------------------------
(* SetCost and EstimateCost as concurrent calls: one goroutine calls       *)
(* SetCost, another EstimateCost, and each write of SetCost to the fields  *)
(* of the estimator and each lookup of EstimateCost is a step.  c.mu is a  *)
(* sync.RWMutex: Lock waits until no writer and no reader holds it, RLock  *)
(* until no writer holds it.                                               *)

\* Patterns given to SetCost by the writer: "/a/", "/a/b/", "h/a/".
SubtreePatterns ==
    { <<"/", "a", "/">>,
      <<"/", "a", "/", "b", "/">>,
      <<"h", "/", "a", "/">> }

\* Paths requested by the reader, for host "h": "/a/b", "/a/b/c".
ReaderPaths ==
    { <<"/", "a", "/", "b">>,
      <<"/", "a", "/", "b", "/", "c">> }

\* c.mu.Lock() can return.
CanLock(m) == ~m.w /\ m.readers = 0

\* As CanRLock, not waiting for the writer.
CanRLockAlways(m) == TRUE

\* c.mu.RLock() can return.
CanRLock(m) == ~m.w

\* The table as the last SetCost that has stored its cost left it.
Committed ==
    IF wr # <<>> /\ wr[1].at \in {"hasHost", "addPrefix", "store"}
    THEN wr[1].before ELSE pce

concVars == <<est, lastSet, rewritten, g, arrived, reqVars, histVars,
              metricVars>>

\* SetCost(pattern, k) is called.
SetCostStart(pattern, k) ==
    /\ wr = <<>>
    /\ \/ Cardinality(DOMAIN pce.costs) < MaxPatterns
       \/ SplitPattern(pattern).cleanPath \in DOMAIN pce.costs
    /\ wr' = <<[pattern |-> pattern, k |-> k, at |-> "Lock", before |-> pce]>>
    /\ UNCHANGED <<pce, mu, rd, concVars>>

\* c.mu.Lock()
SetCostLock ==
    /\ wr # <<>> /\ wr[1].at = "Lock"
    /\ CanLock(mu)
    /\ mu' = [mu EXCEPT !.w = TRUE]
    /\ wr' = <<[wr[1] EXCEPT !.at = "hasHost", !.before = pce]>>
    /\ UNCHANGED <<pce, rd, concVars>>

\* if host != "" { c.hasHost = true }
SetCostHasHost ==
    /\ wr # <<>> /\ wr[1].at = "hasHost"
    /\ pce' = [pce EXCEPT
                 !.hasHost = @ \/ SplitPattern(wr[1].pattern).host # <<>>]
    /\ wr' = <<[wr[1] EXCEPT !.at = "addPrefix"]>>
    /\ UNCHANGED <<mu, rd, concVars>>

\* if prefix { c.addPrefix(cleanPath) }
SetCostAddPrefix ==
    /\ wr # <<>> /\ wr[1].at = "addPrefix"
    /\ LET sp == SplitPattern(wr[1].pattern)
       IN pce' = [pce EXCEPT
                    !.prefixes = IF sp.prefix THEN addPrefix(@, sp.cleanPath)
                                 ELSE @]
    /\ wr' = <<[wr[1] EXCEPT !.at = "store"]>>
    /\ UNCHANGED <<mu, rd, concVars>>

\* c.costs[cleanPath] = cost: the call has taken effect, and an
\* EstimateCost call in progress may answer from the new table.
SetCostStore ==
    /\ wr # <<>> /\ wr[1].at = "store"
    /\ pce' = [pce EXCEPT
                 !.costs = StoreCost(@, SplitPattern(wr[1].pattern).cleanPath,
                                     wr[1].k)]
    /\ wr' = <<[wr[1] EXCEPT !.at = "Unlock"]>>
    /\ rd' = IF rd = <<>> THEN rd
             ELSE <<[rd[1] EXCEPT
                       !.allowed = @ \cup {EstimateCost(pce', rd[1].host,
                                                        rd[1].path)}]>>
    /\ UNCHANGED <<mu, concVars>>

\* The deferred c.mu.Unlock(); SetCost returns.
SetCostUnlock ==
    /\ wr # <<>> /\ wr[1].at = "Unlock"
    /\ mu' = [mu EXCEPT !.w = FALSE]
    /\ wr' = <<>>
    /\ UNCHANGED <<pce, rd, concVars>>

\* EstimateCost is called for a request: it may answer from the table as
\* it is now, not counting a SetCost that has not stored its cost yet.
EstimateCostStart(host, path) ==
    /\ rd = <<>>
    /\ rd' = <<[host |-> host, path |-> path, at |-> "RLock",
                cost |-> NoMatchCost,
                allowed |-> {EstimateCost(Committed, host, path)}]>>
    /\ UNCHANGED <<pce, mu, wr, concVars>>

\* c.mu.RLock()
EstimateCostRLock ==
    /\ rd # <<>> /\ rd[1].at = "RLock"
    /\ CanRLock(mu)
    /\ mu' = [mu EXCEPT !.readers = @ + 1]
    /\ rd' = <<[rd[1] EXCEPT !.at = "host"]>>
    /\ UNCHANGED <<pce, wr, concVars>>

\* if c.hasHost { ... c.match(host + path) ... }
EstimateCostMatchHost ==
    /\ rd # <<>> /\ rd[1].at = "host"
    /\ LET hm == match(pce, stripPort(rd[1].host) \o Clean(rd[1].path))
       IN rd' = IF pce.hasHost /\ hm.ok
                THEN <<[rd[1] EXCEPT !.at = "RUnlock", !.cost = hm.cost]>>
                ELSE <<[rd[1] EXCEPT !.at = "path"]>>
    /\ UNCHANGED <<pce, mu, wr, concVars>>

\* cost, _ := c.match(path)
EstimateCostMatchPath ==
    /\ rd # <<>> /\ rd[1].at = "path"
    /\ rd' = <<[rd[1] EXCEPT !.at = "RUnlock",
                             !.cost = match(pce, Clean(rd[1].path)).cost]>>
    /\ UNCHANGED <<pce, mu, wr, concVars>>

\* The deferred c.mu.RUnlock(); EstimateCost returns rd[1].cost.
EstimateCostRUnlock ==
    /\ rd # <<>> /\ rd[1].at = "RUnlock"
    /\ mu' = [mu EXCEPT !.readers = @ - 1]
    /\ rd' = <<>>
    /\ UNCHANGED <<pce, wr, concVars>>

ConcNext ==
    \/ \E pattern \in SubtreePatterns, k \in PatternCosts :
          SetCostStart(pattern, k)
    \/ SetCostLock
    \/ SetCostHasHost
    \/ SetCostAddPrefix
    \/ SetCostStore
    \/ SetCostUnlock
    \/ \E path \in ReaderPaths : EstimateCostStart(<<"h">>, path)
    \/ EstimateCostRLock
    \/ EstimateCostMatchHost
    \/ EstimateCostMatchPath
    \/ EstimateCostRUnlock

ConcSpec == EstInit /\ [][ConcNext]_vars

\* C21: whatever SetCost calls run while an EstimateCost call is in
\* progress, the value the call returns is the value EstimateCost gives on
\* the table as it was when the call began or as one of those SetCost
\* calls left it; and while the call reads the table, every entry of the
\* prefix list has its cost in the cost map.
C21_EstimateSeesWholeSetCosts ==
    /\ (rd # <<>> /\ rd[1].at = "RUnlock") => rd[1].cost \in rd[1].allowed
    /\ (rd # <<>> /\ rd[1].at \in {"host", "path"}) =>
          \A i \in 1..Len(pce.prefixes) :
              pce.prefixes[i] \in DOMAIN pce.costs

\* A SetCost call stored its cost after an EstimateCost call had begun and
\* changed the answer for its request; the EstimateCost call is about to
\* return the answer of the new table, while the next SetCost call is
\* waiting for the lock.
C21_Witness ==
    /\ rd # <<>>
    /\ rd[1].at = "RUnlock"
    /\ Cardinality(rd[1].allowed) = 2
    /\ rd[1].cost \in rd[1].allowed
    /\ rd[1].cost = EstimateCost(pce, rd[1].host, rd[1].path)
    /\ wr # <<>>
    /\ wr[1].at = "Lock"

====
